---- MODULE Spec2Model ----
(***************************************************************************)
(* State-machine model of pyclim-NorESM's regridding helpers               *)
(* (src/pyclim-noresm/regrid_functions.py): make_bounds, mk_outgrid and    *)
(* make_regridder.                                                         *)
(*                                                                         *)
(* Arrays are functions over 0..n-1, so that indices read as in the Python *)
(* source (index -1 is Size(a) - 1).  Coordinates are integer degrees.     *)
(***************************************************************************)
EXTENDS Integers, Sequences, FiniteSets, TLC

VARIABLES
    modelname,  \* the module-level name `modelname` read by make_regridder
    store,      \* the weight files on disk: file name -> stored weights
    result      \* the outcome of the last call

vars == <<modelname, store, result>>

-----------------------------------------------------------------------------
(* Bounds of the model *)

MaxRows == 3    \* input grids have 2..MaxRows rows (j)
MaxCols == 2    \* input grids have 1..MaxCols columns (i)
MaxCells == 2   \* target axes have 1..MaxCells cells
MaxDims == 2    \* datasets given to consistent_naming have 1..MaxDims dimensions

-----------------------------------------------------------------------------
(* Array helpers: what the xarray calls of the source do to the values *)

Size(a) == Cardinality(DOMAIN a)

\* a.isel(dim=slice(0, stop)) on the leading axis
isel_slice(a, stop) ==
    LET n == IF stop < Size(a) THEN stop ELSE Size(a)
    IN  [k \in 0..(n - 1) |-> a[k]]

\* a.isel(dim=-1) on the leading axis
isel_last(a) == a[Size(a) - 1]

\* xr.concat([a, b], dim) of two 1-D arrays along their axis
concat(a, b) ==
    [k \in 0..(Size(a) + Size(b) - 1) |->
        IF k < Size(a) THEN a[k] ELSE b[k - Size(a)]]

\* a scalar (0-D) array taking part in a concat: one element along the axis
expand(s) == [k \in 0..0 |-> s]

\* the (j, i) array v.isel(vertices=k) of a (j, i, vertices) array
isel_vertices(v, k) ==
    [j \in DOMAIN v |-> [i \in DOMAIN v[j] |-> v[j][i][k]]]

\* xr.concat([A, col], dim='i'): A is (j, i), col is (j): one more column
concat_i(A, col) == [j \in DOMAIN A |-> concat(A[j], expand(col[j]))]

\* xr.concat([A, row], dim='j'): A is (j, i), row is (i): one more row
concat_j(A, row) == concat(A, expand(row))

\* the (j) array A.isel(i=-1) of a (j, i) array
isel_last_i(A) == [j \in DOMAIN A |-> isel_last(A[j])]

-----------------------------------------------------------------------------
(* make_bounds *)

\* the models whose ocean grid carries the duplicated row j=385
TrimModels == {"NorESM2-LM", "NorESM2-MM"}

\* faulty variant: the row is dropped for the other value of the flag
EffectiveRows_not_seaice(mname, ds, seaice) ==
    LET ny == Size(ds.lat)
    IN  IF mname \in TrimModels /\ ~seaice THEN ny - 1 ELSE ny

\* faulty variant: the row is dropped for every model
EffectiveRows_any_model(mname, ds, seaice) ==
    LET ny == Size(ds.lat)
    IN  IF seaice THEN ny - 1 ELSE ny

\* ny after lines 34-37
EffectiveRows(mname, ds, seaice) ==
    LET ny == Size(ds.lat)
    IN  IF mname \in TrimModels /\ seaice THEN ny - 1 ELSE ny

\* faulty variant: the mesh is not cut back to ny+1 rows
corner_mesh_no_isel(v, ny) ==
    LET b0  == concat_i(isel_vertices(v, 0), isel_last_i(isel_vertices(v, 1)))
        top == concat(isel_last(isel_vertices(v, 3)),
                      expand(isel_last(isel_last(isel_vertices(v, 2)))))
    IN  concat_j(b0, top)

\* faulty variant: the vertices are cut to ny rows before the mesh is put together
corner_mesh_isel_first(v, ny) ==
    LET w   == isel_slice(v, ny)
        b0  == concat_i(isel_vertices(w, 0), isel_last_i(isel_vertices(w, 1)))
        top == concat(isel_last(isel_vertices(w, 3)),
                      expand(isel_last(isel_last(isel_vertices(w, 2)))))
    IN  concat_j(b0, top)

\* lines 44-47 and the isel of lines 50-54: the corner mesh of one vertex
\* field, before the clamp
corner_mesh(v, ny) ==
    LET b0  == concat_i(isel_vertices(v, 0), isel_last_i(isel_vertices(v, 1)))
        top == concat(isel_last(isel_vertices(v, 3)),
                      expand(isel_last(isel_last(isel_vertices(v, 2)))))
        b1  == concat_j(b0, top)
    IN  isel_slice(b1, ny + 1)

\* lines 55-56: where(lat_b < 90, 90), then where(lat_b > -90, -90)
where_lt(x, lim) == IF x < lim THEN x ELSE lim
where_gt(x, lim) == IF x > lim THEN x ELSE lim
\* faulty variant: the second where is missing
polar_clamp_north_only(A) ==
    [j \in DOMAIN A |-> [i \in DOMAIN A[j] |-> where_lt(A[j][i], 90)]]

polar_clamp(A) ==
    [j \in DOMAIN A |-> [i \in DOMAIN A[j] |-> where_gt(where_lt(A[j][i], 90), -90)]]

\* faulty variant: the axes keep the names of the input
rename_dims_none(dims, name_dict) == dims

\* a.rename(name_dict) on the axis names of an array
rename_dims(dims, name_dict) ==
    [k \in DOMAIN dims |->
        IF dims[k] \in DOMAIN name_dict THEN name_dict[dims[k]] ELSE dims[k]]

\* the axes of the source centers and of each vertex field once a vertex is
\* picked (lines 39-47 index them by j and i)
SourceDims == <<"j", "i">>

\* a.drop(name): the array without the coordinate
drop(coords, name) == coords \ {name}

\* lines 34-57; the branches on 'lat' in ds.lon.coords differ only in the
\* auxiliary coordinates they drop
make_bounds(mname, ds, seaice) ==
    LET ny == EffectiveRows(mname, ds, seaice)
        coords == IF "lat" \in ds.coords
                  THEN drop(drop(ds.coords, "lon"), "lat")
                  ELSE ds.coords
    IN  [ lat      |-> isel_slice(ds.lat, ny),
          lon      |-> isel_slice(ds.lon, ny),
          lon_b    |-> corner_mesh(ds.vertices_longitude, ny),
          lat_b    |-> polar_clamp(corner_mesh(ds.vertices_latitude, ny)),
          dims     |-> rename_dims(SourceDims, "i" :> "x" @@ "j" :> "y"),
          dims_b   |-> rename_dims(SourceDims, "j" :> "y_b" @@ "i" :> "x_b"),
          coords   |-> coords ]

-----------------------------------------------------------------------------
(* mk_outgrid *)

\* faulty variant: the first lower bound followed by every upper bound
edge_vector_uppers(bnds) ==
    concat(expand(bnds[0][0]), [k \in DOMAIN bnds |-> bnds[k][1]])

\* faulty variant: the closing edge is taken from the first cell, not the last
edge_vector_first(bnds) ==
    concat([k \in DOMAIN bnds |-> bnds[k][0]], expand(bnds[0][1]))

\* lines 74-75: concat([bnds.isel(bnds=0), bnds.isel(axis=-1).isel(bnds=1)])
edge_vector(bnds) ==
    concat([k \in DOMAIN bnds |-> bnds[k][0]], expand(isel_last(bnds)[1]))

\* the axes of the target latitudes and longitudes (lines 72-75)
TargetDims == <<"lat", "lon">>

\* lines 72-77
mk_outgrid(ds) ==
    [ lon      |-> ds.lon,
      lat      |-> ds.lat,
      lon_b    |-> edge_vector(ds.lon_bnds),
      lat_b    |-> edge_vector(ds.lat_bnds),
      dims     |-> rename_dims(TargetDims, "lon" :> "x" @@ "lat" :> "y"),
      dims_b   |-> rename_dims(TargetDims, "lat" :> "y_b" @@ "lon" :> "x_b") ]

-----------------------------------------------------------------------------
(* make_regridder *)

Undefined == "<undefined>"   \* the name is not bound in the module
NoWeights == [src |-> "none", dst |-> "none", method |-> "none"]

\* faulty variant: the remap mode is left out of the file name
WeightFileName_no_mode(grid_weight_path, regrid_mode) ==
    grid_weight_path \o "model_to_grid_" \o ".nc"

\* line 101: the file name handed to the regridder
WeightFileName(grid_weight_path, regrid_mode) ==
    grid_weight_path \o "model_to_grid_" \o regrid_mode \o ".nc"

\* the weights the remap engine computes for a pair of geometries and a
\* method, named by what they were computed for
ComputeWeights(ds_in, ds_out, method) ==
    [src |-> ds_in, dst |-> ds_out, method |-> method]

\* xe.Regridder(ds_in, ds_out, method, filename=, reuse_weights=) as
\* spec.md 4.3 and the docstring of make_regridder describe it: with
\* reuse_weights and a file under filename the stored weights are read;
\* otherwise the weights are computed and written under filename.
Regridder(files, ds_in, ds_out, method, filename, reuse_weights) ==
    IF reuse_weights /\ filename \in DOMAIN files
    THEN [ weights |-> files[filename], computed |-> FALSE, files |-> files ]
    ELSE LET w == ComputeWeights(ds_in, ds_out, method)
         IN  [ weights |-> w, computed |-> TRUE,
               files |-> [f \in DOMAIN files \cup {filename} |->
                            IF f = filename THEN w ELSE files[f]] ]

\* faulty variant: the file name is built without the '.nc' the readers expect
make_regridder_other_file(global, files, ds, outgrid, grid_weight_path, regrid_mode, reuse_weights) ==
    IF global = Undefined
    THEN [ status |-> "NameError", weights |-> NoWeights, computed |-> FALSE,
           files |-> files ]
    ELSE LET ds_in == make_bounds(global, ds, FALSE)
             r == Regridder(files, ds_in, outgrid, regrid_mode,
                            grid_weight_path \o "model_to_grid_" \o regrid_mode,
                            reuse_weights)
         IN  [ status |-> "ok", weights |-> r.weights, computed |-> r.computed,
               files |-> r.files ]

\* lines 99-103.  `global` is what the name modelname is bound to in the
\* module when line 99 reads it: no parameter and no assignment of the module
\* binds it, so the read raises NameError unless a caller has set it.
make_regridder(global, files, ds, outgrid, grid_weight_path, regrid_mode, reuse_weights) ==
    IF global = Undefined
    THEN [ status |-> "NameError", weights |-> NoWeights, computed |-> FALSE,
           files |-> files ]
    ELSE LET ds_in == make_bounds(global, ds, FALSE)
             r == Regridder(files, ds_in, outgrid, regrid_mode,
                            WeightFileName(grid_weight_path, regrid_mode),
                            reuse_weights)
         IN  [ status |-> "ok", weights |-> r.weights, computed |-> r.computed,
               files |-> r.files ]

-----------------------------------------------------------------------------
(* consistent_naming (functions/general_util_funcs.py) *)

\* A dataset is the names of its dimensions, of its coordinates and of its
\* data variables; status tells whether a call has raised.
Variables(ds) == ds.coords \cup ds.data_vars

\* ds.rename({old: new}): the variable, the coordinate and the dimension
\* called old are called new; renaming a variable to the name of another
\* variable raises ValueError ("the new name conflicts")
ds_rename(ds, old, new) ==
    LET swap(S) == IF old \in S THEN (S \ {old}) \cup {new} ELSE S
    IN  IF old \in Variables(ds) /\ new \in Variables(ds)
        THEN [ds EXCEPT !.status = "ValueError"]
        ELSE [ status    |-> ds.status,
               dims      |-> swap(ds.dims),
               coords    |-> swap(ds.coords),
               data_vars |-> swap(ds.data_vars) ]

\* lines 32-35: if old in ds.coords and new not in ds.coords: rename
rename_coord(ds, old, new) ==
    IF ds.status = "ok" /\ old \in ds.coords /\ new \notin ds.coords
    THEN ds_rename(ds, old, new) ELSE ds

\* lines 36-48: if old in ds.dims: rename
rename_dim(ds, old, new) ==
    IF ds.status = "ok" /\ old \in ds.dims
    THEN ds_rename(ds, old, new) ELSE ds

\* faulty variant: the vertical axis is left as it is
consistent_naming_no_lev(ds) ==
    LET d1 == rename_coord(ds, "latitude", "lat")
        d2 == rename_coord(d1, "longitude", "lon")
        d3 == rename_dim(d2, "region", "basin")
        d4 == rename_dim(d3, "x", "i")
        d5 == rename_dim(d4, "y", "j")
    IN  rename_dim(d5, "bounds", "bnds")

\* lines 16-49
consistent_naming(ds) ==
    LET d1 == rename_coord(ds, "latitude", "lat")
        d2 == rename_coord(d1, "longitude", "lon")
        d3 == rename_dim(d2, "region", "basin")
        d4 == rename_dim(d3, "x", "i")
        d5 == rename_dim(d4, "y", "j")
        d6 == rename_dim(d5, "depth", "lev")
    IN  rename_dim(d6, "bounds", "bnds")

-----------------------------------------------------------------------------
(* Inputs *)

ModelNames == {"NorESM2-LM", "NorESM2-MM", "CESM2"}

\* One source dataset per shape and latitude offset.  Every vertex carries a
\* value of its own (its tag), so a corner tells which vertex it was taken
\* from; the vertices of neighbouring cells are not made to agree.
Tag(I, j, i, v) == 4 * (j * I + i) + v
LatBases == {-130, -40, 50}
SourceGrid(J, I, base, cf) ==
    [ coords             |-> cf,
      lat                |-> [j \in 0..(J-1) |-> [i \in 0..(I-1) |-> j]],
      lon                |-> [j \in 0..(J-1) |-> [i \in 0..(I-1) |-> i]],
      vertices_latitude  |-> [j \in 0..(J-1) |-> [i \in 0..(I-1) |->
                                [v \in 0..3 |-> base + 10 * Tag(I, j, i, v)]]],
      vertices_longitude |-> [j \in 0..(J-1) |-> [i \in 0..(I-1) |->
                                [v \in 0..3 |-> Tag(I, j, i, v)]]] ]
SourceGrids ==
    { SourceGrid(J, I, base, cf) :
        J \in 2..MaxRows, I \in 1..MaxCols, base \in LatBases, cf \in {{}, {"lat", "lon"}} }

\* One target dataset per length, direction and cell widths: cell k starts at
\* dir * 10 * k; every cell but the last is w wide, the last one wl wide.
Widths == {10, 5, -3}
Axis(N, dir, w, wl) ==
    [k \in 0..(N-1) |->
        [b \in 0..1 |-> dir * 10 * k
                        + (IF b = 0 THEN 0 ELSE IF k = N - 1 THEN wl ELSE w)]]
Axes ==
    { Axis(N, dir, w, wl) :
        N \in 1..MaxCells, dir \in {1, -1}, w \in Widths, wl \in Widths }
Centers(bnds) == [k \in DOMAIN bnds |-> bnds[k][0]]
TargetGrid(latb, lonb) ==
    [ lat |-> Centers(latb), lon |-> Centers(lonb),
      lat_bnds |-> latb, lon_bnds |-> lonb ]
TargetGrids == { TargetGrid(a, b) : a \in Axes, b \in Axes }

\* the arguments of make_regridder
RegridSources == { SourceGrid(2, I, -40, {}) : I \in 1..2 }
RegridTargets == { mk_outgrid(TargetGrid(Axis(2, 1, 10, 10), Axis(2, 1, 10, 10))) }
Paths == {"w/", "v/"}
Modes == {"conservative", "bilinear"}

\* the datasets given to consistent_naming
DimPool ==
    { "x", "y", "depth", "bounds", "region", "i", "j", "lev", "bnds", "basin",
      "latitude", "longitude", "lat", "lon", "time" }
CoordPool == { "latitude", "longitude", "lat", "lon", "x" }
DataVarChoices == { {}, {"thetao"}, {"region"}, {"i"} }
Datasets ==
    { [ status |-> "ok", dims |-> D, coords |-> C, data_vars |-> V ] :
        D \in { S \in SUBSET DimPool : Cardinality(S) \in 1..MaxDims },
        C \in SUBSET CoordPool, V \in DataVarChoices }

-----------------------------------------------------------------------------
(* The state machine *)

NoCall == [op |-> "none"]

Init ==
    /\ modelname = Undefined
    /\ store = [f \in {} |-> NoCall]
    /\ result = NoCall

CallMakeBounds ==
    \E m \in ModelNames, ds \in SourceGrids, seaice \in BOOLEAN :
        /\ result' = [ op |-> "make_bounds", modelname |-> m, ds |-> ds,
                       seaice |-> seaice, status |-> "ok",
                       out |-> make_bounds(m, ds, seaice) ]
        /\ UNCHANGED <<modelname, store>>

CallMkOutgrid ==
    \E ds \in TargetGrids :
        /\ result' = [ op |-> "mk_outgrid", ds |-> ds, status |-> "ok",
                       out |-> mk_outgrid(ds) ]
        /\ UNCHANGED <<modelname, store>>

CallMakeRegridder ==
    \E ds \in RegridSources, outgrid \in RegridTargets, path \in Paths,
       mode \in Modes, reuse \in BOOLEAN :
        LET r == make_regridder(modelname, store, ds, outgrid, path, mode, reuse)
            fname == WeightFileName(path, mode)
        IN  /\ result' = [ op |-> "make_regridder", ds |-> ds, outgrid |-> outgrid,
                           grid_weight_path |-> path, regrid_mode |-> mode,
                           reuse_weights |-> reuse, global |-> modelname,
                           existed |-> fname \in DOMAIN store,
                           before |-> IF fname \in DOMAIN store
                                      THEN store[fname] ELSE NoWeights,
                           status |-> r.status, weights |-> r.weights,
                           computed |-> r.computed ]
            /\ store' = r.files
            /\ UNCHANGED modelname

\* a caller binds the name modelname in the module
SetModelName ==
    \E m \in ModelNames :
        /\ modelname' = m
        /\ UNCHANGED <<store, result>>

\* the program is run again: the module is imported afresh, the weight files
\* of earlier runs are still on disk
NewRun ==
    /\ modelname' = Undefined
    /\ result' = NoCall
    /\ UNCHANGED store

\* ds = consistent_naming(ds), on a dataset as opened or on the dataset an
\* earlier call returned
CallConsistentNaming ==
    /\ result.op \in {"open_dataset", "consistent_naming"}
    /\ result.status = "ok"
    /\ result' = [ op |-> "consistent_naming", ds |-> result.out,
                   again |-> (result.op = "consistent_naming"),
                   opened |-> IF result.op = "open_dataset"
                              THEN result.out ELSE result.opened,
                   status |-> consistent_naming(result.out).status,
                   out |-> consistent_naming(result.out) ]
    /\ UNCHANGED <<modelname, store>>

\* a program that has opened one dataset and normalises its names
NamingInit ==
    /\ modelname = Undefined
    /\ store = [f \in {} |-> NoCall]
    /\ \E d \in Datasets : result = [op |-> "open_dataset", status |-> "ok", out |-> d]
NamingNext == CallConsistentNaming
NamingSpec == NamingInit /\ [][NamingNext]_vars

GeomNext == CallMakeBounds \/ CallMkOutgrid
GeomSpec == Init /\ [][GeomNext]_vars

RegridNext == CallMakeRegridder \/ SetModelName \/ NewRun
RegridSpec == Init /\ [][RegridNext]_vars

\* make_bounds and mk_outgrid neither read nor write modelname and the weight
\* files, so their properties are checked under GeomSpec, those of
\* make_regridder under RegridSpec and those of consistent_naming, which
\* works on a dataset the program has opened, under NamingSpec.
Next == GeomNext \/ RegridNext \/ NamingNext
Spec == Init /\ [][Next]_vars

-----------------------------------------------------------------------------
(* Claims about make_bounds *)

IsMakeBounds == result.op = "make_bounds"
InRows == Size(result.ds.lat)              \* J, the rows of the input
OutRows == Size(result.out.lat)            \* R, the rows of the centers returned
OutCols == Size(result.out.lat[0])         \* C
Trimmed == IsMakeBounds /\ OutRows = InRows - 1

HasShape(A, rows, cols) ==
    /\ Size(A) = rows
    /\ \A j \in DOMAIN A : Size(A[j]) = cols

\* C1: the corner arrays lat_b and lon_b returned by make_bounds have shape
\* (rows+1, cols+1), where (rows, cols) is the shape of the centers lat and
\* lon returned with them, whatever the model name and the sea-ice flag,
\* the trimmed case included.
C1_CornerShape ==
    IsMakeBounds =>
        /\ HasShape(result.out.lat, OutRows, OutCols)
        /\ HasShape(result.out.lon, OutRows, OutCols)
        /\ HasShape(result.out.lat_b, OutRows + 1, OutCols + 1)
        /\ HasShape(result.out.lon_b, OutRows + 1, OutCols + 1)

\* a call that trimmed the last row and returned corners one larger than
\* the trimmed centers
C1_Witness ==
    /\ Trimmed
    /\ HasShape(result.out.lat_b, InRows, OutCols + 1)

\* the corner latitudes of the call, before the clamp
RawLatB ==
    corner_mesh(result.ds.vertices_latitude,
                EffectiveRows(result.modelname, result.ds, result.seaice))

\* C2: every corner latitude lat_b returned by make_bounds lies in
\* [-90, 90], whatever the vertex latitudes of the input.
C2_LatClamped ==
    IsMakeBounds =>
        \A j \in DOMAIN result.out.lat_b : \A i \in DOMAIN result.out.lat_b[j] :
            /\ result.out.lat_b[j][i] >= -90
            /\ result.out.lat_b[j][i] <= 90

\* a call whose corners, before the clamp, lay above 90, at 90, below -90
\* and in between
C2_Witness ==
    /\ IsMakeBounds
    /\ \E j \in DOMAIN RawLatB : \E i \in DOMAIN RawLatB[j] :
           RawLatB[j][i] > 90 /\ result.out.lat_b[j][i] = 90
    /\ \E j \in DOMAIN RawLatB : \E i \in DOMAIN RawLatB[j] :
           RawLatB[j][i] < -90 /\ result.out.lat_b[j][i] = -90
    /\ \E j \in DOMAIN RawLatB : \E i \in DOMAIN RawLatB[j] :
           RawLatB[j][i] = -90 /\ result.out.lat_b[j][i] = -90
    /\ \E j \in DOMAIN RawLatB : \E i \in DOMAIN RawLatB[j] :
           RawLatB[j][i] = 90 /\ result.out.lat_b[j][i] = 90
    /\ \E j \in DOMAIN RawLatB : \E i \in DOMAIN RawLatB[j] :
           RawLatB[j][i] > -90 /\ RawLatB[j][i] < 90
                /\ result.out.lat_b[j][i] = RawLatB[j][i]

\* C3 as stated: for NorESM2-LM and NorESM2-MM the last row is dropped when
\* the sea-ice flag is false, and kept when it is true.
C3_Original ==
    (IsMakeBounds /\ result.modelname \in TrimModels) =>
        OutRows = (IF result.seaice THEN InRows ELSE InRows - 1)

\* C3 amended: for NorESM2-LM and NorESM2-MM the last row is dropped when
\* the sea-ice flag is true (the centers have one row less than the input
\* and the corners as many rows as the input), and kept when it is false.
C3_TrimOnSeaIce ==
    (IsMakeBounds /\ result.modelname \in TrimModels) =>
        /\ OutRows = (IF result.seaice THEN InRows - 1 ELSE InRows)
        /\ Size(result.out.lat_b) = OutRows + 1

\* a NorESM2 sea-ice call that dropped the last row
C3_Witness ==
    /\ IsMakeBounds
    /\ result.modelname \in TrimModels
    /\ result.seaice
    /\ OutRows = InRows - 1

\* the mesh C4 describes: the top row from vertices 3 and 2 of row R-1
ClaimedMesh(v, R, C) ==
    [r \in 0..R |-> [c \in 0..C |->
        IF r < R /\ c < C THEN v[r][c][0]
        ELSE IF r < R THEN v[r][C - 1][1]
        ELSE IF c < C THEN v[R - 1][c][3]
        ELSE v[R - 1][C - 1][2]]]

\* the mesh of a trimmed call: the top row from vertices 0 and 1 of the
\* dropped input row R
TrimmedMesh(v, R, C) ==
    [r \in 0..R |-> [c \in 0..C |->
        IF c < C THEN v[r][c][0] ELSE v[r][C - 1][1]]]

\* C4 as stated: corner[r,c] is vertex 0 of cell (r,c), the last column
\* vertex 1 of cell (r,C-1), the top row vertex 3 of cell (R-1,c) and the
\* top right corner vertex 2 of cell (R-1,C-1), with R and C the rows and
\* columns returned, also when the last input row was trimmed.
C4_Original ==
    IsMakeBounds =>
        /\ result.out.lon_b = ClaimedMesh(result.ds.vertices_longitude, OutRows, OutCols)
        /\ RawLatB = ClaimedMesh(result.ds.vertices_latitude, OutRows, OutCols)

\* C4 amended: when no row was trimmed the mesh is the one stated; when the
\* last input row was trimmed, the top row of corners is taken from the
\* trimmed input row R itself: corner[R,c] is vertex 0 of cell (R,c) and
\* corner[R,C] is vertex 1 of cell (R,C-1).
C4_MeshFromVertices ==
    IsMakeBounds =>
        LET M(v) == IF Trimmed THEN TrimmedMesh(v, OutRows, OutCols)
                               ELSE ClaimedMesh(v, OutRows, OutCols)
        IN  /\ result.out.lon_b = M(result.ds.vertices_longitude)
            /\ RawLatB = M(result.ds.vertices_latitude)
            /\ result.out.lat_b = polar_clamp(M(result.ds.vertices_latitude))

\* a trimmed call whose top corner row differs from vertices 3 and 2 of the
\* last row kept
C4_Witness ==
    /\ Trimmed
    /\ OutCols >= 2
    /\ result.out.lon_b[OutRows][0] = result.ds.vertices_longitude[OutRows][0][0]
    /\ result.out.lon_b[OutRows][0] # result.ds.vertices_longitude[OutRows - 1][0][3]

\* C9 as stated: a model name outside the table of known models makes
\* make_bounds fail with UnsupportedModelError.
C9_Original ==
    (IsMakeBounds /\ result.modelname \notin TrimModels) =>
        result.status = "UnsupportedModelError"

\* C9 amended: make_bounds raises nothing for a model name outside
\* NorESM2-LM and NorESM2-MM: it returns the geometry of all input rows,
\* whatever the sea-ice flag.
C9_UnknownModelUntrimmed ==
    (IsMakeBounds /\ result.modelname \notin TrimModels) =>
        /\ result.status = "ok"
        /\ OutRows = InRows
        /\ HasShape(result.out.lat_b, InRows + 1, OutCols + 1)
        /\ HasShape(result.out.lon_b, InRows + 1, OutCols + 1)

\* a sea-ice call for another model that returned every row
C9_Witness ==
    /\ IsMakeBounds
    /\ result.modelname \notin TrimModels
    /\ result.seaice
    /\ result.status = "ok"
    /\ OutRows = InRows

-----------------------------------------------------------------------------
(* Claims about mk_outgrid *)

IsMkOutgrid == result.op = "mk_outgrid"

\* the edge vector C5 describes
IsEdgesOf(e, bnds) ==
    LET N == Size(bnds)
    IN  /\ Size(e) = N + 1
        /\ \A k \in 0..(N - 1) : e[k] = bnds[k][0]
        /\ e[N] = bnds[N - 1][1]

\* two bound arrays with the same lower bounds and the same last upper bound
SameEdges(a, b) ==
    /\ Size(a) = Size(b)
    /\ \A k \in DOMAIN a : a[k][0] = b[k][0]
    /\ isel_last(a)[1] = isel_last(b)[1]

\* C5: for N latitude and M longitude cells mk_outgrid returns lat_b of
\* length N+1 and lon_b of length M+1, element k the lower bound of cell k
\* and the last element the upper bound of the last cell; the upper bounds
\* of the other cells do not change the result.
C5_EdgeVectors ==
    IsMkOutgrid =>
        /\ IsEdgesOf(result.out.lat_b, result.ds.lat_bnds)
        /\ IsEdgesOf(result.out.lon_b, result.ds.lon_bnds)
        /\ \A d \in TargetGrids :
              /\ SameEdges(d.lat_bnds, result.ds.lat_bnds)
                    => mk_outgrid(d).lat_b = result.out.lat_b
              /\ SameEdges(d.lon_bnds, result.ds.lon_bnds)
                    => mk_outgrid(d).lon_b = result.out.lon_b

\* a call on cells that do not touch, with another input that differs only
\* in the upper bounds of cells other than the last
C5_Witness ==
    /\ IsMkOutgrid
    /\ Size(result.ds.lat_bnds) >= 2
    /\ result.ds.lat_bnds[0][1] # result.ds.lat_bnds[1][0]
    /\ \E d \in TargetGrids :
          /\ SameEdges(d.lat_bnds, result.ds.lat_bnds)
          /\ d.lat_bnds # result.ds.lat_bnds

\* bound pairs that are strictly ordered: every cell's lower bound below its
\* upper bound, and the bounds increasing along the axis
StrictlyOrdered(bnds) ==
    /\ \A k \in DOMAIN bnds : bnds[k][0] < bnds[k][1]
    /\ \A k \in DOMAIN bnds : (k + 1) \in DOMAIN bnds =>
          /\ bnds[k][0] < bnds[k + 1][0]
          /\ bnds[k][1] < bnds[k + 1][1]

Unordered ==
    \/ ~StrictlyOrdered(result.ds.lat_bnds)
    \/ ~StrictlyOrdered(result.ds.lon_bnds)

\* C10 as stated: bound pairs that are not strictly ordered make mk_outgrid
\* fail with NonMonotonicBoundsError.
C10_Original ==
    (IsMkOutgrid /\ Unordered) => result.status = "NonMonotonicBoundsError"

\* C10 amended: mk_outgrid checks no ordering: for bound pairs that are not
\* strictly ordered it raises nothing and returns the edge vectors made of
\* the lower bound of every cell and the upper bound of the last cell.
C10_UnorderedAccepted ==
    (IsMkOutgrid /\ Unordered) =>
        /\ result.status = "ok"
        /\ IsEdgesOf(result.out.lat_b, result.ds.lat_bnds)
        /\ IsEdgesOf(result.out.lon_b, result.ds.lon_bnds)

\* a call on latitude cells that run downwards, the last one upside down
C10_Witness ==
    /\ IsMkOutgrid
    /\ Size(result.ds.lat_bnds) >= 2
    /\ result.ds.lat_bnds[1][0] < result.ds.lat_bnds[0][0]
    /\ isel_last(result.ds.lat_bnds)[1] < isel_last(result.ds.lat_bnds)[0]
    /\ result.status = "ok"
    /\ Size(result.out.lat_b) = Size(result.ds.lat_bnds) + 1

-----------------------------------------------------------------------------
(* Claims about make_regridder *)

IsMakeRegridder == result.op = "make_regridder"
CallFile == WeightFileName(result.grid_weight_path, result.regrid_mode)

\* C6: a call with reuse_weights=True made while a weight file exists under
\* the call's weight-file name returns the stored weights, computes nothing
\* and leaves the stored file as it was.
C6_ReuseReturnsStored ==
    (IsMakeRegridder /\ result.reuse_weights /\ result.existed) =>
        /\ result.status = "ok"
        /\ result.weights = result.before
        /\ ~result.computed
        /\ CallFile \in DOMAIN store
        /\ store[CallFile] = result.before

\* C7: the weight file is keyed by source grid, destination grid and remap
\* mode, so a call with reuse_weights=True that returns weights returns
\* weights computed for its own source geometry, its own destination grid
\* and its own mode.
C7_KeyedByGrids ==
    (IsMakeRegridder /\ result.reuse_weights /\ result.status = "ok") =>
        /\ result.weights.src = make_bounds(result.global, result.ds, FALSE)
        /\ result.weights.dst = result.outgrid
        /\ result.weights.method = result.regrid_mode

-----------------------------------------------------------------------------
(* Claims about the axis names of the two geometries *)

AxisNames(dims) == { dims[k] : k \in DOMAIN dims }
AllAxisNames(g) == AxisNames(g.dims) \cup AxisNames(g.dims_b)

\* the geometries the other function returns, to set beside the last result
SourceGeometries ==
    { make_bounds(m, ds, seaice) :
        m \in ModelNames, ds \in SourceGrids, seaice \in BOOLEAN }
TargetGeometries == { mk_outgrid(ds) : ds \in TargetGrids }
OtherGeometries ==
    IF IsMakeBounds THEN TargetGeometries
    ELSE IF IsMkOutgrid THEN SourceGeometries
    ELSE {}

\* C11 as stated: the axis names of the source geometry returned by
\* make_bounds and those of the destination geometry returned by mk_outgrid
\* are disjoint, for the cell axes and for the bounds axes.
C11_Original ==
    \A g \in OtherGeometries :
        /\ AxisNames(result.out.dims) \cap AxisNames(g.dims) = {}
        /\ AxisNames(result.out.dims_b) \cap AxisNames(g.dims_b) = {}

\* C11 amended: make_bounds and mk_outgrid return their geometries under
\* the same axis names: the cell axes are y and x and the bounds axes y_b
\* and x_b in both, so the two sets of names are equal; the names of the
\* inputs (i, j, lat, lon) do not remain, and within a geometry the cell
\* axes are disjoint from the bounds axes.
C11_SameAxisNames ==
    \A g \in OtherGeometries :
        /\ AxisNames(result.out.dims) = {"y", "x"}
        /\ AxisNames(g.dims) = {"y", "x"}
        /\ AxisNames(result.out.dims_b) = {"y_b", "x_b"}
        /\ AxisNames(g.dims_b) = {"y_b", "x_b"}
        /\ AllAxisNames(result.out) = AllAxisNames(g)
        /\ AxisNames(result.out.dims) \cap AxisNames(result.out.dims_b) = {}

\* a source geometry and a destination geometry that share the cell axis x
\* and the bounds axis y_b
C11_Witness ==
    /\ IsMakeBounds
    /\ \E g \in TargetGeometries :
          /\ "x" \in AxisNames(result.out.dims) \cap AxisNames(g.dims)
          /\ "y_b" \in AxisNames(result.out.dims_b) \cap AxisNames(g.dims_b)

-----------------------------------------------------------------------------
(* Claims about consistent_naming *)

IsNaming == result.op = "consistent_naming"

\* the raw dimension names and their canonical counterparts
DimPairs ==
    { <<"x", "i">>, <<"y", "j">>, <<"depth", "lev">>, <<"bounds", "bnds">>,
      <<"region", "basin">> }
CoordPairs == { <<"latitude", "lat">>, <<"longitude", "lon">> }
RawDims == { p[1] : p \in DimPairs }
Canonical(n) ==
    IF n \in RawDims THEN (CHOOSE p \in DimPairs : p[1] = n)[2] ELSE n

\* the dimensions hold no raw name together with its canonical counterpart
NoPairInDims(ds) ==
    \A p \in DimPairs : ~(p[1] \in ds.dims /\ p[2] \in ds.dims)

\* C12 as stated: for a dataset whose dimensions do not hold both a raw name
\* and its canonical counterpart, consistent_naming returns a dataset with
\* none of the raw dimension names x, y, depth, bounds, region (renamed to
\* i, j, lev, bnds, basin) and every other dimension name unchanged, and a
\* second application returns the naming of the first.
C12_Original ==
    /\ (IsNaming /\ ~result.again /\ NoPairInDims(result.ds)) =>
          /\ result.status = "ok"
          /\ result.out.dims \cap RawDims = {}
          /\ result.out.dims = { Canonical(n) : n \in result.ds.dims }
    /\ (IsNaming /\ result.again) =>
          /\ result.status = "ok"
          /\ result.out = result.ds

\* the coordinate renames the call makes: latitude to lat (longitude to lon)
\* when the dataset has that coordinate and no coordinate lat (lon)
CoordRenamed(ds, n) ==
    \E p \in CoordPairs : p[1] = n /\ n \in ds.coords /\ p[2] \notin ds.coords
NewName(ds, n) ==
    IF n \in RawDims THEN Canonical(n)
    ELSE IF CoordRenamed(ds, n) THEN (CHOOSE p \in CoordPairs : p[1] = n)[2]
    ELSE n

\* no name the call introduces is already taken by a dimension or a variable
NewNamesFree(ds) ==
    /\ \A p \in DimPairs :
          p[1] \in ds.dims => p[2] \notin ds.dims \cup Variables(ds)
    /\ \A p \in CoordPairs :
          CoordRenamed(ds, p[1]) => p[2] \notin ds.dims \cup Variables(ds)

\* C12 amended: for a dataset in which no name the call introduces (i, j,
\* lev, bnds, basin, lat, lon) is already taken by a dimension or a variable,
\* consistent_naming raises nothing and returns a dataset with none of the
\* raw dimension names x, y, depth, bounds, region (renamed to i, j, lev,
\* bnds, basin); a dimension named latitude (longitude) that is a coordinate
\* is renamed to lat (lon) when the dataset has no coordinate lat (lon);
\* every other dimension name is unchanged; a second application returns the
\* dataset of the first unchanged.
C12_CanonicalNames ==
    /\ (IsNaming /\ ~result.again /\ NewNamesFree(result.ds)) =>
          /\ result.status = "ok"
          /\ result.out.dims \cap RawDims = {}
          /\ result.out.dims = { NewName(result.ds, n) : n \in result.ds.dims }
    /\ (IsNaming /\ result.again) =>
          /\ result.status = "ok"
          /\ result.out = result.ds

\* a second application on a dataset opened with the dimensions depth and
\* latitude, which the first application renamed
C12_Witness ==
    /\ IsNaming
    /\ result.again
    /\ result.opened.dims = {"depth", "latitude"}
    /\ NewNamesFree(result.opened)
    /\ result.ds.dims = {"lev", "lat"}
    /\ result.out.dims = {"lev", "lat"}

-----------------------------------------------------------------------------
(* Claims about what decides the outcome of make_regridder *)

\* what the name modelname can be bound to in the module when a call is made
ModuleBindings == {Undefined} \cup ModelNames

\* the last call made again from the same weight files with the module name
\* bound to g
SameCall(g) ==
    make_regridder(g, store, result.ds, result.outgrid, result.grid_weight_path,
                   result.regrid_mode, result.reuse_weights)

\* the source geometry a call builds at line 99, if it builds one
BuiltGeometry(g, ds) ==
    IF g = Undefined THEN "none" ELSE make_bounds(g, ds, FALSE)

\* C13: the outcome of make_regridder is decided by its arguments and the
\* weight files alone: a call that left the weight files as they were, made
\* again with the same arguments and whatever binding of the module-level
\* name modelname, builds the same source geometry and returns or fails as
\* the first one did.
C13_ArgumentsDecideOutcome ==
    (IsMakeRegridder /\ ~result.computed) =>
        \A g \in ModuleBindings :
            /\ SameCall(g).status = result.status
            /\ BuiltGeometry(g, result.ds) = BuiltGeometry(result.global, result.ds)

====
